---- MODULE Spec2Model ----
(***************************************************************************)
(* A model of the process scheduler of src/main.go: main loads one batch   *)
(* of processes and runs FCFSSchedule, SJFSchedule, SJFPrioritySchedule    *)
(* and RRSchedule on it, in that order, each writing its title, Gantt      *)
(* timeline and schedule table once its computation is over.               *)
(*                                                                         *)
(* Slices are sequences, so Go's index i is i + 1 here.  A schedule row is *)
(* the tuple of the seven numbers the code prints with fmt.Sprint (decimal *)
(* text of an integer, or of a float64 holding an integer); a row that was *)
(* never assigned is the empty tuple.  An average or a throughput is kept  *)
(* as the pair of the numerator and the denominator of the float division. *)
(***************************************************************************)
EXTENDS Integers, Sequences, FiniteSets, TLC

\* Bounds of the batches that are explored.
MaxProcs == 2
MaxArrival == 2
MaxPriority == 2
MaxTotalBurst == 7

\* Bound of the input files that are explored: the number of records.
MaxRecords == 2

\* math.MaxInt64, the sentinel of the selection scan of SJFSchedule; the
\* model's integers are narrower, and every remaining time is far below it.
MaxInt64 == 2147483647

VARIABLES
    pc,                      \* where the program is: the policy being run
    loaded,                  \* the batch as loadProcesses returned it
    processes,               \* the slice shared by the four policy calls
    out,                     \* what has been written to os.Stdout, per policy
    idx,                     \* FCFSSchedule: the loop index i
    serviceTime,             \* FCFSSchedule
    waitingTime,             \* FCFSSchedule
    totalWait,               \* FCFSSchedule
    totalTurnaround,         \* FCFSSchedule
    lastCompletionTime,      \* all three policies
    schedule,                \* all three policies: the rows
    gantt,                   \* all three policies: the timeline
    currentIndex,            \* SJFSchedule
    currentTime,             \* SJFSchedule, SJFPrioritySchedule
    remainingTime,           \* SJFSchedule
    waitingTimes,            \* SJFSchedule, SJFPrioritySchedule
    turnAroundTimes,         \* SJFPrioritySchedule
    numOfCompletedProcesses, \* SJFSchedule
    insertedProcessIdx,      \* SJFPrioritySchedule
    minHeap,                 \* SJFPrioritySchedule
    records,                 \* the records of the input file, as text
    ranLog,                  \* history: the process of every executed unit
    ranAt,                   \* history: the clock at which each unit started
    doneLog                  \* history: every completion, with the clock

vars == <<pc, records, loaded, processes, out, idx, serviceTime, waitingTime, totalWait,
          totalTurnaround, lastCompletionTime, schedule, gantt, currentIndex,
          currentTime, remainingTime, waitingTimes, turnAroundTimes,
          numOfCompletedProcesses, insertedProcessIdx, minHeap, ranLog, ranAt, doneLog>>

fcfsLocals == <<idx, serviceTime, waitingTime, totalWait, totalTurnaround>>
sjfLocals == <<currentIndex, remainingTime, numOfCompletedProcesses>>
prioLocals == <<turnAroundTimes, insertedProcessIdx, minHeap>>

------------------------------------------------------------------------------
\* Helpers

RECURSIVE SumSeq(_)
SumSeq(s) == IF s = <<>> THEN 0 ELSE Head(s) + SumSeq(Tail(s))

Max2(a, b) == IF a < b THEN b ELSE a

Zeros(n) == [i \in 1..n |-> 0]

NoRow == <<>>

NoRows(n) == [i \in 1..n |-> NoRow]

\* Row with the wait and the turnaround in each other's column.
RowWaitTurnaroundSwapped(p, wait, turnaround, completion) ==
    <<p.ProcessID, p.Priority, p.BurstDuration, p.ArrivalTime, turnaround, wait, completion>>

\* The seven columns of a schedule row, in the order of the table header.
Row(p, wait, turnaround, completion) ==
    <<p.ProcessID, p.Priority, p.BurstDuration, p.ArrivalTime, wait, turnaround, completion>>

RowID(r) == r[1]
RowPriority(r) == r[2]
RowBurst(r) == r[3]
RowArrival(r) == r[4]
RowWait(r) == r[5]
RowTurnaround(r) == r[6]
RowExit(r) == r[7]

Ratio(n, d) == [num |-> n, den |-> d]

\* outputTitle, outputGantt, outputSchedule: what one policy writes.
Output(title, g, rows, wait, turnaround, throughput) ==
    [title |-> title, parts |-> <<"title", "gantt", "schedule">>, gantt |-> g,
     rows |-> rows, aveWait |-> wait, aveTurnaround |-> turnaround,
     aveThroughput |-> throughput]

\* TitleOnly with an empty timeline and an empty table written after the title.
TitleWithEmptyTable(title) ==
    [title |-> title, parts |-> <<"title", "gantt", "schedule">>, gantt |-> <<>>,
     rows |-> <<>>, aveWait |-> Ratio(0, 0), aveTurnaround |-> Ratio(0, 0),
     aveThroughput |-> Ratio(0, 0)]

\* RRSchedule writes the title with outputTitle, and calls nothing else.
TitleOnly(title) ==
    [title |-> title, parts |-> <<"title">>, gantt |-> <<>>, rows |-> <<>>,
     aveWait |-> Ratio(0, 1), aveTurnaround |-> Ratio(0, 1), aveThroughput |-> Ratio(0, 1)]

\* The bursts of a batch of n processes: each positive, MaxTotalBurst in all
\* at most.
Bursts(n) == {b \in [1..n -> 1..MaxTotalBurst] : SumSeq(b) <= MaxTotalBurst}

\* The batch of n processes with these arrivals, bursts and priorities; the
\* ProcessID of a process is its position in the input, so the IDs are unique.
Batch(n, arr, bur, pri) ==
    [i \in 1..n |-> [ProcessID |-> i, ArrivalTime |-> arr[i],
                     BurstDuration |-> bur[i], Priority |-> pri[i]]]

\* SinkDown with half a swap: the element below is overwritten, not exchanged.
RECURSIVE SinkDownOverwrites(_, _)
SinkDownOverwrites(s, j) ==
    IF j > 1 /\ s[j].ArrivalTime < s[j - 1].ArrivalTime
    THEN SinkDownOverwrites([s EXCEPT ![j - 1] = s[j]], j - 1)
    ELSE s

\* sort.Slice(processes, less on ArrivalTime).  On a slice of at most 12
\* elements, which every batch here is, sort.Slice is an insertion sort: the
\* element at i moves down while it arrives strictly before the one below it.
RECURSIVE SinkDown(_, _)
SinkDown(s, j) ==
    IF j > 1 /\ s[j].ArrivalTime < s[j - 1].ArrivalTime
    THEN SinkDown([s EXCEPT ![j] = s[j - 1], ![j - 1] = s[j]], j - 1)
    ELSE s

RECURSIVE InsertionSort(_, _)
InsertionSort(s, i) == IF i > Len(s) THEN s ELSE InsertionSort(SinkDown(s, i), i + 1)

\* A sort that leaves the batch in its input order.
SortByArrivalNone(s) == s

SortByArrival(s) == InsertionSort(s, 2)

------------------------------------------------------------------------------
Init ==
    /\ pc = "fcfs"
    /\ \E n \in 1..MaxProcs :
        \E bur \in Bursts(n) :
            \E arr \in [1..n -> 0..MaxArrival] :
                \E pri \in [1..n -> 1..MaxPriority] :
                    loaded = Batch(n, arr, bur, pri)
    /\ records = <<>>
    /\ processes = loaded
    /\ out = <<>>
    /\ idx = 1
    /\ serviceTime = 0
    /\ waitingTime = 0
    /\ totalWait = 0
    /\ totalTurnaround = 0
    /\ lastCompletionTime = 0
    /\ schedule = NoRows(Len(loaded))
    /\ gantt = <<>>
    /\ currentIndex = 1
    /\ currentTime = 0
    /\ remainingTime = <<>>
    /\ waitingTimes = <<>>
    /\ turnAroundTimes = <<>>
    /\ numOfCompletedProcesses = 0
    /\ insertedProcessIdx = 0
    /\ minHeap = <<>>
    /\ ranLog = <<>>
    /\ ranAt = <<>>
    /\ doneLog = <<>>

------------------------------------------------------------------------------
\* loadProcesses, from the records csv.ReadAll returns.  The text of a field
\* is the sequence of its characters.

DigitChars == <<"0", "1", "2", "3", "4", "5", "6", "7", "8", "9">>

IsDigit(c) == \E d \in 1..10 : DigitChars[d] = c

DigitValue(c) == (CHOOSE d \in 1..10 : DigitChars[d] = c) - 1

\* The number a sequence of digits writes in base 10, after the digits acc
\* stands for.
RECURSIVE Decimal(_, _)
Decimal(body, acc) ==
    IF body = <<>> THEN acc ELSE Decimal(Tail(body), 10 * acc + DigitValue(Head(body)))

\* strconv.ParseInt(s, 10, 64): an optional sign, then digits, one at least,
\* and nothing else; ok tells whether err is nil.  (A number outside int64 is
\* an error too; no text here is that long.)
ParseInt(s) ==
    LET signed == s # <<>> /\ s[1] \in {"+", "-"}
        body == IF signed THEN Tail(s) ELSE s
    IN IF body = <<>> \/ \E k \in 1..Len(body) : ~IsDigit(body[k])
       THEN [ok |-> FALSE, val |-> 0]
       ELSE [ok |-> TRUE,
             val |-> IF signed /\ s[1] = "-" THEN 0 - Decimal(body, 0) ELSE Decimal(body, 0)]

\* The fields of a record that loadProcesses parses: the first three, and
\* the fourth when the record has exactly four.
ParsedFields(rec) == IF Len(rec) = 4 THEN 1..4 ELSE 1..3

\* Some field that is parsed makes mustStrToInt exit.
SomeFieldFails ==
    \E i \in 1..Len(records) : \E k \in ParsedFields(records[i]) : ~ParseInt(records[i][k]).ok

\* The Process of a record: ProcessID, BurstDuration, ArrivalTime, and the
\* Priority when the record has a fourth field, 0 otherwise.
ProcessOf(rec) ==
    [ProcessID |-> ParseInt(rec[1]).val,
     BurstDuration |-> ParseInt(rec[2]).val,
     ArrivalTime |-> ParseInt(rec[3]).val,
     Priority |-> IF Len(rec) = 4 THEN ParseInt(rec[4]).val ELSE 0]

\* The texts of the fields of the input files that are explored: numbers that
\* make a batch of the data model, and a text that is no number.
BadText == <<"1", "x">>
BurstTexts == {<<"1">>, <<"2">>, BadText}
ArrivalTexts == {<<"0">>, <<"+", "2">>, BadText}
PriorityTexts == {<<"1">>, <<"2">>, BadText}

ExtraTexts == {<<"3">>, BadText}

\* main before the policies, on an input file of records of three, of four or
\* of five fields each (csv.ReadAll wants every record as long as the first).
InitLoad ==
    /\ pc = "load"
    /\ \E n \in 1..MaxRecords :
        \E ids \in [1..n -> {TRUE, FALSE}] :
            \E bur \in [1..n -> BurstTexts] :
                \E arr \in [1..n -> ArrivalTexts] :
                    \/ records = [i \in 1..n |->
                            <<IF ids[i] THEN <<DigitChars[i + 1]>> ELSE BadText,
                              bur[i], arr[i]>>]
                    \/ \E pri \in [1..n -> PriorityTexts] :
                        \/ records = [i \in 1..n |->
                                <<IF ids[i] THEN <<DigitChars[i + 1]>> ELSE BadText,
                                  bur[i], arr[i], pri[i]>>]
                        \/ \E ext \in [1..n -> ExtraTexts] :
                            records = [i \in 1..n |->
                                <<IF ids[i] THEN <<DigitChars[i + 1]>> ELSE BadText,
                                  bur[i], arr[i], pri[i], ext[i]>>]
    /\ loaded = <<>>
    /\ processes = <<>>
    /\ out = <<>>
    /\ idx = 1
    /\ serviceTime = 0
    /\ waitingTime = 0
    /\ totalWait = 0
    /\ totalTurnaround = 0
    /\ lastCompletionTime = 0
    /\ schedule = <<>>
    /\ gantt = <<>>
    /\ currentIndex = 1
    /\ currentTime = 0
    /\ remainingTime = <<>>
    /\ waitingTimes = <<>>
    /\ turnAroundTimes = <<>>
    /\ numOfCompletedProcesses = 0
    /\ insertedProcessIdx = 0
    /\ minHeap = <<>>
    /\ ranLog = <<>>
    /\ ranAt = <<>>
    /\ doneLog = <<>>

\* loadProcesses returns the batch, and main goes on to FCFSSchedule.
LoadProcesses ==
    /\ pc = "load"
    /\ ~SomeFieldFails
    /\ loaded' = [i \in 1..Len(records) |-> ProcessOf(records[i])]
    /\ processes' = loaded'
    /\ schedule' = NoRows(Len(records))
    /\ pc' = "fcfs"
    /\ UNCHANGED <<records, out, fcfsLocals, lastCompletionTime, gantt, currentTime,
                   waitingTimes, sjfLocals, prioLocals, ranLog, ranAt, doneLog>>

\* mustStrToInt prints the error and exits with status 1.
LoadExit ==
    /\ pc = "load"
    /\ SomeFieldFails
    /\ pc' = "exit"
    /\ UNCHANGED <<records, loaded, processes, out, fcfsLocals, lastCompletionTime, schedule,
                   gantt, currentTime, waitingTimes, sjfLocals, prioLocals, ranLog, ranAt,
                   doneLog>>

------------------------------------------------------------------------------
\* FCFSSchedule

\* FCFSWait recomputed for every process, whatever its arrival.
FCFSWaitAlways(p, service, carried) == service - p.ArrivalTime

\* The wait of the process at hand: recomputed only when it arrives after 0.
FCFSWait(p, service, carried) ==
    IF p.ArrivalTime > 0 THEN service - p.ArrivalTime ELSE carried

\* One iteration of the loop over the batch.
FCFSIter ==
    /\ pc = "fcfs"
    /\ idx <= Len(processes)
    /\ LET p == processes[idx]
           w == FCFSWait(p, serviceTime, waitingTime)
           start == w + p.ArrivalTime
           turnaround == p.BurstDuration + w
           completion == p.BurstDuration + p.ArrivalTime + w
       IN /\ waitingTime' = w
          /\ totalWait' = totalWait + w
          /\ totalTurnaround' = totalTurnaround + turnaround
          /\ lastCompletionTime' = completion
          /\ schedule' = [schedule EXCEPT ![idx] = Row(p, w, turnaround, completion)]
          /\ serviceTime' = serviceTime + p.BurstDuration
          /\ gantt' = Append(gantt, [PID |-> p.ProcessID, Start |-> start,
                                     Stop |-> serviceTime + p.BurstDuration])
    /\ idx' = idx + 1
    /\ UNCHANGED <<pc, records, loaded, processes, out, currentTime, waitingTimes,
                   sjfLocals, prioLocals, ranLog, ranAt, doneLog>>

\* The loop is over: the averages, and the three outputs.
FCFSEmit ==
    /\ pc = "fcfs"
    /\ idx > Len(processes)
    /\ LET count == Len(processes)
       IN out' = Append(out, Output("First-come, first-serve", gantt, schedule,
                                    Ratio(totalWait, count), Ratio(totalTurnaround, count),
                                    Ratio(count, lastCompletionTime)))
    /\ pc' = "sjf"
    /\ idx' = 1
    /\ serviceTime' = 0
    /\ waitingTime' = 0
    /\ totalWait' = 0
    /\ totalTurnaround' = 0
    /\ lastCompletionTime' = 0
    /\ schedule' = <<>>
    /\ gantt' = <<>>
    /\ UNCHANGED <<records, loaded, processes, currentTime, waitingTimes, sjfLocals,
                   prioLocals, ranLog, ranAt, doneLog>>

------------------------------------------------------------------------------
\* SJFSchedule

\* The batch is sorted by arrival, and the locals are made.
SJFStart ==
    /\ pc = "sjf"
    /\ processes' = SortByArrival(processes)
    /\ remainingTime' = [i \in 1..Len(processes) |-> processes'[i].BurstDuration]
    /\ pc' = "sjf_loop"
    /\ currentIndex' = 1
    /\ currentTime' = 0
    /\ lastCompletionTime' = 0
    /\ schedule' = NoRows(Len(processes))
    /\ gantt' = <<>>
    /\ waitingTimes' = Zeros(Len(processes))
    /\ numOfCompletedProcesses' = 0
    /\ ranLog' = <<>>
    /\ ranAt' = <<>>
    /\ doneLog' = <<>>
    /\ UNCHANGED <<records, loaded, out, fcfsLocals, prioLocals>>

\* SJFScan with <= for <: among equal remaining times the last index wins.
RECURSIVE SJFScanLastOnTies(_, _, _, _, _, _)
SJFScanLastOnTies(procs, remaining, now, i, minRemainTime, index) ==
    IF i > Len(procs) THEN <<minRemainTime, index>>
    ELSE IF /\ procs[i].ArrivalTime <= now
            /\ remaining[i] <= minRemainTime
            /\ remaining[i] > 0
         THEN SJFScanLastOnTies(procs, remaining, now, i + 1, remaining[i], i)
         ELSE SJFScanLastOnTies(procs, remaining, now, i + 1, minRemainTime, index)

\* SJFScan over every process with remaining time, arrived or not.
RECURSIVE SJFScanUnarrived(_, _, _, _, _, _)
SJFScanUnarrived(procs, remaining, now, i, minRemainTime, index) ==
    IF i > Len(procs) THEN <<minRemainTime, index>>
    ELSE IF /\ remaining[i] < minRemainTime
            /\ remaining[i] > 0
         THEN SJFScanUnarrived(procs, remaining, now, i + 1, remaining[i], i)
         ELSE SJFScanUnarrived(procs, remaining, now, i + 1, minRemainTime, index)

\* SJFScan comparing the whole bursts, not the remaining times.
RECURSIVE SJFScanByBurst(_, _, _, _, _, _)
SJFScanByBurst(procs, remaining, now, i, minRemainTime, index) ==
    IF i > Len(procs) THEN <<minRemainTime, index>>
    ELSE IF /\ procs[i].ArrivalTime <= now
            /\ procs[i].BurstDuration < minRemainTime
            /\ remaining[i] > 0
         THEN SJFScanByBurst(procs, remaining, now, i + 1, procs[i].BurstDuration, i)
         ELSE SJFScanByBurst(procs, remaining, now, i + 1, minRemainTime, index)

\* The scan of one loop iteration, from index i on: <<minRemainTime,
\* currentIndex>> after it.  A process replaces the choice only when its
\* remaining time is strictly smaller.
RECURSIVE SJFScan(_, _, _, _, _, _)
SJFScan(procs, remaining, now, i, minRemainTime, index) ==
    IF i > Len(procs) THEN <<minRemainTime, index>>
    ELSE IF /\ procs[i].ArrivalTime <= now
            /\ remaining[i] < minRemainTime
            /\ remaining[i] > 0
         THEN SJFScan(procs, remaining, now, i + 1, remaining[i], i)
         ELSE SJFScan(procs, remaining, now, i + 1, minRemainTime, index)

SJFSelect == SJFScan(processes, remainingTime, currentTime, 1, MaxInt64, currentIndex)

\* Whether the timeline needs a new slice for the process about to run.
NewSlice(g, pid) == Len(g) = 0 \/ g[Len(g)].PID # pid

\* SJFWait without the burst taken off: the turnaround, for the wait.
SJFWaitKeepsBurst(p, stop) ==
    LET w == stop - p.ArrivalTime
    IN IF w < 0 THEN 0 ELSE w

\* The wait of a process that completes at stop, never negative.
SJFWait(p, stop) ==
    LET w == stop - p.BurstDuration - p.ArrivalTime
    IN IF w < 0 THEN 0 ELSE w

\* Nothing can run: the clock is set to the arrival of the process at index
\* numOfCompletedProcesses, and the loop continues.
SJFIdleJump ==
    /\ pc = "sjf_loop"
    /\ numOfCompletedProcesses < Len(processes)
    /\ SJFSelect[1] = MaxInt64
    /\ currentTime' = processes[numOfCompletedProcesses + 1].ArrivalTime
    /\ UNCHANGED <<pc, records, loaded, processes, out, fcfsLocals, lastCompletionTime, schedule,
                   gantt, waitingTimes, sjfLocals, prioLocals, ranLog, ranAt, doneLog>>

\* One unit of the selected process, and its completion when it was the last.
SJFTick ==
    /\ pc = "sjf_loop"
    /\ numOfCompletedProcesses < Len(processes)
    /\ SJFSelect[1] # MaxInt64
    /\ LET ci == SJFSelect[2]
           p == processes[ci]
           g1 == IF NewSlice(gantt, p.ProcessID)
                 THEN Append(gantt, [PID |-> p.ProcessID, Start |-> currentTime, Stop |-> 0])
                 ELSE gantt
           stop == currentTime + 1
           w == SJFWait(p, stop)
           completion == p.BurstDuration + p.ArrivalTime + w
       IN /\ currentIndex' = ci
          /\ remainingTime' = [remainingTime EXCEPT ![ci] = @ - 1]
          /\ currentTime' = currentTime + 1
          /\ ranLog' = Append(ranLog, p.ProcessID)
          /\ ranAt' = Append(ranAt, currentTime)
          /\ IF remainingTime[ci] - 1 = 0
             THEN /\ numOfCompletedProcesses' = numOfCompletedProcesses + 1
                  /\ gantt' = [g1 EXCEPT ![Len(g1)].Stop = stop]
                  /\ waitingTimes' = [waitingTimes EXCEPT ![ci] = w]
                  /\ lastCompletionTime' = Max2(lastCompletionTime, completion)
                  /\ schedule' = [schedule EXCEPT
                                    ![ci] = Row(p, w, w + p.BurstDuration, completion)]
                  /\ doneLog' = Append(doneLog, [pid |-> p.ProcessID, at |-> stop])
             ELSE /\ gantt' = g1
                  /\ UNCHANGED <<numOfCompletedProcesses, waitingTimes,
                                 lastCompletionTime, schedule, doneLog>>
    /\ UNCHANGED <<pc, records, loaded, processes, out, fcfsLocals, prioLocals>>

\* totalWaitingTime
totalWaitingTime(waits) == SumSeq(waits)

\* totalTurnAroundTime
totalTurnAroundTime(procs, waits) ==
    SumSeq([i \in 1..Len(procs) |-> procs[i].BurstDuration + waits[i]])

\* Every process is complete: the averages, and the three outputs.
SJFEmit ==
    /\ pc = "sjf_loop"
    /\ numOfCompletedProcesses >= Len(processes)
    /\ LET count == Len(processes)
       IN out' = Append(out, Output("Shortest-job-first", gantt, schedule,
                                    Ratio(totalWaitingTime(waitingTimes), count),
                                    Ratio(totalTurnAroundTime(processes, waitingTimes), count),
                                    Ratio(count, lastCompletionTime)))
    /\ pc' = "prio"
    /\ currentIndex' = 1
    /\ currentTime' = 0
    /\ lastCompletionTime' = 0
    /\ schedule' = <<>>
    /\ gantt' = <<>>
    /\ remainingTime' = <<>>
    /\ waitingTimes' = <<>>
    /\ numOfCompletedProcesses' = 0
    /\ UNCHANGED <<records, loaded, processes, fcfsLocals, prioLocals, ranLog, ranAt, doneLog>>

------------------------------------------------------------------------------
\* IntHeap under container/heap: a binary min-heap on Priority, kept in a
\* slice; position i of the slice is i + 1 here.

\* A Less that orders by the largest Priority value first.
LessReversed(h, i, j) == h[i + 1].Priority > h[j + 1].Priority

\* IntHeap.Less
Less(h, i, j) == h[i + 1].Priority < h[j + 1].Priority

\* IntHeap.Swap
Swap(h, i, j) == [h EXCEPT ![i + 1] = h[j + 1], ![j + 1] = h[i + 1]]

\* heap.up: the element at j rises while it is less than its parent.
RECURSIVE up(_, _)
up(h, j) ==
    LET i == IF j = 0 THEN 0 ELSE (j - 1) \div 2
    IN IF i = j \/ ~Less(h, j, i) THEN h ELSE up(Swap(h, j, i), i)

\* heap.down: the element at i sinks below its smaller child, within h[0:n].
RECURSIVE down(_, _, _)
down(h, i, n) ==
    LET j1 == 2 * i + 1
    IN IF j1 >= n THEN h
       ELSE LET j == IF j1 + 1 < n /\ Less(h, j1 + 1, j1) THEN j1 + 1 ELSE j1
            IN IF ~Less(h, j, i) THEN h ELSE down(Swap(h, i, j), j, n)

\* heap.Push(minHeap, x): IntHeap.Push appends, then up.
HeapPush(h, x) == up(Append(h, x), Len(h))

\* heap.Pop(minHeap) of a heap that is not empty: the root goes last, the rest
\* is made a heap again, and IntHeap.Pop takes the last element off:
\* <<the element, the heap left>>.
HeapPop(h) ==
    LET n == Len(h) - 1
        h1 == down(Swap(h, 0, n), 0, n)
    IN <<h1[n + 1], SubSeq(h1, 1, n)>>

------------------------------------------------------------------------------
\* SJFPrioritySchedule

\* processesMapIndex: the index of the process of each ProcessID (the last
\* one written, were an ID to occur twice).
ProcessesMapIndex(procs) ==
    [id \in {procs[i].ProcessID : i \in 1..Len(procs)} |->
        CHOOSE i \in 1..Len(procs) :
            /\ procs[i].ProcessID = id
            /\ \A j \in 1..Len(procs) : procs[j].ProcessID = id => j <= i]

\* The batch is sorted by arrival, the locals are made, and the clock starts
\* at the first arrival.
PrioStart ==
    /\ pc = "prio"
    /\ processes' = SortByArrival(processes)
    /\ currentTime' = processes'[1].ArrivalTime
    /\ pc' = "prio_loop"
    /\ turnAroundTimes' = Zeros(Len(processes))
    /\ waitingTimes' = Zeros(Len(processes))
    /\ gantt' = <<>>
    /\ lastCompletionTime' = 0
    /\ schedule' = NoRows(Len(processes))
    /\ insertedProcessIdx' = 0
    /\ minHeap' = <<>>
    /\ ranLog' = <<>>
    /\ ranAt' = <<>>
    /\ doneLog' = <<>>
    /\ UNCHANGED <<records, loaded, out, fcfsLocals, sjfLocals>>

\* The inner loop: every process not yet inserted whose ArrivalTime is the
\* clock is pushed: <<the heap, insertedProcessIdx>> after it.
RECURSIVE InsertArrived(_, _, _, _)
InsertArrived(procs, h, k, now) ==
    IF k < Len(procs) /\ procs[k + 1].ArrivalTime = now
    THEN InsertArrived(procs, HeapPush(h, procs[k + 1]), k + 1, now)
    ELSE <<h, k>>

PrioInserted == InsertArrived(processes, minHeap, insertedProcessIdx, currentTime)

\* One unit of the process popped from the heap; it is recorded when that was
\* its last unit, and pushed back otherwise.
PrioTick ==
    /\ pc = "prio_loop"
    /\ Len(PrioInserted[1]) # 0
    /\ LET popped == HeapPop(PrioInserted[1])
           minPriorityProcess == [popped[1] EXCEPT !.BurstDuration = @ - 1]
           i == ProcessesMapIndex(processes)[minPriorityProcess.ProcessID]
           completionTime == currentTime + 1
           turnaround == completionTime - minPriorityProcess.ArrivalTime
       IN /\ insertedProcessIdx' = PrioInserted[2]
          /\ gantt' = IF NewSlice(gantt, minPriorityProcess.ProcessID)
                      THEN Append(gantt, [PID |-> minPriorityProcess.ProcessID,
                                          Start |-> currentTime,
                                          Stop |-> currentTime + minPriorityProcess.BurstDuration + 1])
                      ELSE gantt
          /\ currentTime' = currentTime + 1
          /\ ranLog' = Append(ranLog, minPriorityProcess.ProcessID)
          /\ ranAt' = Append(ranAt, currentTime)
          /\ lastCompletionTime' = Max2(lastCompletionTime, currentTime + 1)
          /\ IF minPriorityProcess.BurstDuration = 0
             THEN /\ turnAroundTimes' = [turnAroundTimes EXCEPT ![i] = turnaround]
                  /\ waitingTimes' = [waitingTimes EXCEPT ![i] =
                        turnaround - minPriorityProcess.BurstDuration
                                   - minPriorityProcess.ArrivalTime]
                  /\ minHeap' = popped[2]
                  /\ doneLog' = Append(doneLog, [pid |-> minPriorityProcess.ProcessID,
                                                 at |-> completionTime])
             ELSE /\ minHeap' = HeapPush(popped[2], minPriorityProcess)
                  /\ UNCHANGED <<turnAroundTimes, waitingTimes, doneLog>>
    /\ UNCHANGED <<pc, records, loaded, processes, out, fcfsLocals, schedule, sjfLocals>>

\* The heap is empty and a process has yet to arrive: the clock is set to its
\* arrival, and the code goes on to heap.Pop of the empty heap, whose Swap
\* indexes the empty slice: the program panics, and writes nothing more.
PrioPanic ==
    /\ pc = "prio_loop"
    /\ Len(PrioInserted[1]) = 0
    /\ PrioInserted[2] < Len(processes)
    /\ currentTime' = processes[PrioInserted[2] + 1].ArrivalTime
    /\ insertedProcessIdx' = PrioInserted[2]
    /\ pc' = "panic"
    /\ UNCHANGED <<records, loaded, processes, out, fcfsLocals, lastCompletionTime, schedule, gantt,
                   waitingTimes, sjfLocals, turnAroundTimes, minHeap, ranLog, ranAt, doneLog>>

\* The row of the process at index i, from the waits and turnarounds recorded.
PrioRow(procs, waits, turnarounds, i) ==
    Row(procs[i], waits[i], turnarounds[i],
        procs[i].ArrivalTime + procs[i].BurstDuration + waits[i])

\* lastCompletionTime after the loop over the rows, from index i on.
RECURSIVE PrioLast(_, _, _)
PrioLast(rows, i, last) ==
    IF i > Len(rows) THEN last ELSE PrioLast(rows, i + 1, Max2(last, RowExit(rows[i])))

\* The heap is empty and every process was inserted: the loop breaks, the
\* rows are made, and the averages and the three outputs follow.
PrioEmit ==
    /\ pc = "prio_loop"
    /\ Len(PrioInserted[1]) = 0
    /\ PrioInserted[2] >= Len(processes)
    /\ LET count == Len(processes)
           rows == [i \in 1..count |-> PrioRow(processes, waitingTimes, turnAroundTimes, i)]
       IN out' = Append(out, Output("Priority", gantt, rows,
                                    Ratio(SumSeq(waitingTimes), count),
                                    Ratio(SumSeq(turnAroundTimes), count),
                                    Ratio(count, PrioLast(rows, 1, lastCompletionTime))))
    /\ pc' = "rr"
    /\ currentTime' = 0
    /\ lastCompletionTime' = 0
    /\ schedule' = <<>>
    /\ gantt' = <<>>
    /\ waitingTimes' = <<>>
    /\ turnAroundTimes' = <<>>
    /\ insertedProcessIdx' = 0
    /\ minHeap' = <<>>
    /\ UNCHANGED <<records, loaded, processes, fcfsLocals, sjfLocals, ranLog, ranAt, doneLog>>

------------------------------------------------------------------------------
\* RRSchedule: the title, and nothing else.
RRSchedule ==
    /\ pc = "rr"
    /\ out' = Append(out, TitleOnly("Round-robin"))
    /\ pc' = "done"
    /\ UNCHANGED <<records, loaded, processes, fcfsLocals, lastCompletionTime, schedule, gantt,
                   currentTime, waitingTimes, sjfLocals, prioLocals, ranLog, ranAt, doneLog>>

------------------------------------------------------------------------------
Next ==
    \/ FCFSIter
    \/ FCFSEmit
    \/ SJFStart
    \/ SJFIdleJump
    \/ SJFTick
    \/ SJFEmit
    \/ PrioStart
    \/ PrioTick
    \/ PrioPanic
    \/ PrioEmit
    \/ RRSchedule

Spec == Init /\ [][Next]_vars

\* The program from the reading of the input on.
NextLoad ==
    \/ LoadProcesses
    \/ LoadExit
    \/ Next

SpecLoad == InitLoad /\ [][NextLoad]_vars

TypeOK ==
    /\ pc \in {"load", "exit", "fcfs", "sjf", "sjf_loop", "prio", "prio_loop", "rr", "done", "panic"}
    /\ Len(processes) = Len(loaded)
    /\ Len(out) <= 4

------------------------------------------------------------------------------
\* What the properties below speak of.

\* The outputs are written in this order: out[1] is FCFS's, out[2] SJF's,
\* out[3] Priority's, out[4] Round-robin's.
PolicyTitles == <<"First-come, first-serve", "Shortest-job-first", "Priority", "Round-robin">>

\* Every row written so far satisfies P.
AllRows(P(_)) ==
    \A k \in 1..Len(out) : \A i \in 1..Len(out[k].rows) : P(out[k].rows[i])

\* The process of the loaded batch with this ProcessID.
Input(id) == loaded[CHOOSE i \in 1..Len(loaded) : loaded[i].ProcessID = id]

\* How often x occurs in the sequence s.
Count(s, x) == Cardinality({k \in 1..Len(s) : s[k] = x})

\* The sequence of the ProcessIDs of the completions logged.
DonePids == [k \in 1..Len(doneLog) |-> doneLog[k].pid]

------------------------------------------------------------------------------
\* C1: every schedule row written by FCFS, SJF or Priority has
\* TurnaroundTime = BurstDuration + WaitTime, BurstDuration being the burst of
\* the process in the input.
C1_RowOK(r) ==
    /\ RowBurst(r) = Input(RowID(r)).BurstDuration
    /\ RowTurnaround(r) = RowBurst(r) + RowWait(r)

C1_TurnaroundIsBurstPlusWait == AllRows(C1_RowOK)

\* C2: every schedule row written by FCFS, SJF or Priority has
\* CompletionTime (the Exit column) = ArrivalTime + TurnaroundTime.
C2_RowOK(r) == RowExit(r) = RowArrival(r) + RowTurnaround(r)

C2_ExitIsArrivalPlusTurnaround == AllRows(C2_RowOK)

\* C3: every schedule row written by FCFS, SJF or Priority has WaitTime >= 0.
C3_RowOK(r) == RowWait(r) >= 0

C3_WaitNeverNegative == AllRows(C3_RowOK)

\* C4: the four policies all run, and write in the order FCFS, SJF, Priority,
\* Round-robin: no run aborts, the titles written are a prefix of that order,
\* and at the end of main the first three outputs are whole and the
\* Round-robin title is the last.
C4_FourPoliciesInOrder ==
    /\ pc # "panic"
    /\ \A k \in 1..Len(out) : out[k].title = PolicyTitles[k]
    /\ pc = "done" =>
        /\ Len(out) = 4
        /\ \A k \in 1..3 : out[k].parts = <<"title", "gantt", "schedule">>

\* C5: the loops of SJF and of Priority end normally, having executed
\* sum(BurstDuration) units in all, BurstDuration units of every process, and
\* having completed every process once.  (The logs are those of SJF when
\* Priority is about to start, and those of Priority from its output on.)
C5_EveryBurstExecutedOnce ==
    /\ pc # "panic"
    /\ \A i \in 1..Len(loaded) : Count(DonePids, loaded[i].ProcessID) <= 1
    /\ pc \in {"prio", "rr", "done"} =>
        /\ Len(ranLog) = SumSeq([i \in 1..Len(loaded) |-> loaded[i].BurstDuration])
        /\ \A i \in 1..Len(loaded) :
            /\ Count(ranLog, loaded[i].ProcessID) = loaded[i].BurstDuration
            /\ Count(DonePids, loaded[i].ProcessID) = 1

C6_ShorterArrivals ==
    {i \in 1..Len(processes) :
        /\ processes[i].ArrivalTime = currentTime
        /\ processes[i].BurstDuration < remainingTime[currentIndex]}

IndexOf(pid) == CHOOSE i \in 1..Len(processes) : processes[i].ProcessID = pid

\* The bursts of the first k processes to complete, added up.
BurstsDone(k) == SumSeq([j \in 1..k |-> Input(doneLog[j].pid).BurstDuration])

AllArriveAtZero == \A i \in 1..Len(loaded) : loaded[i].ArrivalTime = 0

\* C7: when every process arrives at 0, SJF completes the processes in the
\* order of their BurstDuration, equal bursts in the order of the sorted
\* batch, and the CompletionTime of each row is the sum of the bursts of the
\* processes completed so far, its own included; bursts 5 and 2 give process 2
\* the CompletionTime 2 and process 1 the CompletionTime 7.
C7_SJFShortestFirstFromZero ==
    (pc = "prio" /\ AllArriveAtZero) =>
        /\ Len(doneLog) = Len(loaded)
        /\ \A a, b \in 1..Len(doneLog) : a < b =>
            LET pa == processes[IndexOf(doneLog[a].pid)]
                pb == processes[IndexOf(doneLog[b].pid)]
            IN \/ pa.BurstDuration < pb.BurstDuration
               \/ /\ pa.BurstDuration = pb.BurstDuration
                  /\ IndexOf(doneLog[a].pid) < IndexOf(doneLog[b].pid)
        /\ \A k \in 1..Len(doneLog) :
            RowExit(out[2].rows[IndexOf(doneLog[k].pid)]) = BurstsDone(k)
        /\ (Len(loaded) = 2 /\ loaded[1].BurstDuration = 5 /\ loaded[2].BurstDuration = 2) =>
            /\ RowExit(out[2].rows[IndexOf(2)]) = 2
            /\ RowExit(out[2].rows[IndexOf(1)]) = 7

\* SJF has run on the batch of C7: bursts 5 and 2, both arriving at 0.
C7_ExampleRan ==
    /\ pc = "prio"
    /\ AllArriveAtZero
    /\ Len(loaded) = 2
    /\ loaded[1].BurstDuration = 5
    /\ loaded[2].BurstDuration = 2
    /\ DonePids = <<2, 1>>

\* C8: when every process arrives at 0 and no two have the same Priority,
\* Priority completes the processes in the order of their Priority, and the
\* completion of each, on the clock and in the CompletionTime of its row, is
\* the sum of the bursts of the processes completed so far, its own included;
\* bursts 4 and 2 with priorities 2 and 1 complete process 2 at 2 and process
\* 1 at 6.
C8_PriorityOrderFromZero ==
    (pc = "rr" /\ AllArriveAtZero
       /\ \A i, j \in 1..Len(loaded) : i # j => loaded[i].Priority # loaded[j].Priority) =>
        /\ Len(doneLog) = Len(loaded)
        /\ \A a, b \in 1..Len(doneLog) : a < b =>
            Input(doneLog[a].pid).Priority < Input(doneLog[b].pid).Priority
        /\ \A k \in 1..Len(doneLog) :
            /\ doneLog[k].at = BurstsDone(k)
            /\ RowExit(out[3].rows[IndexOf(doneLog[k].pid)]) = BurstsDone(k)
        /\ (/\ Len(loaded) = 2
            /\ loaded[1].BurstDuration = 4 /\ loaded[1].Priority = 2
            /\ loaded[2].BurstDuration = 2 /\ loaded[2].Priority = 1) =>
            /\ doneLog = <<[pid |-> 2, at |-> 2], [pid |-> 1, at |-> 6]>>
            /\ RowExit(out[3].rows[IndexOf(2)]) = 2
            /\ RowExit(out[3].rows[IndexOf(1)]) = 6

\* The largest CompletionTime of the rows.
RECURSIVE MaxExit(_)
MaxExit(rows) ==
    IF Len(rows) = 1 THEN RowExit(rows[1])
    ELSE Max2(RowExit(Head(rows)), MaxExit(Tail(rows)))

\* C9: the throughput of FCFS, SJF and Priority is the number of processes
\* over the largest CompletionTime of the rows of that run, which is positive.
C9_ThroughputOverLastCompletion ==
    \A k \in 1..Len(out) : k <= 3 =>
        /\ out[k].aveThroughput.num = Len(loaded)
        /\ out[k].aveThroughput.den = MaxExit(out[k].rows)
        /\ out[k].aveThroughput.den > 0

\* C10: FCFS keeps the order of the input: the batch is as loaded while it
\* runs and when it returns, it writes one row and one slice per process, the
\* i-th of each for the i-th process of the input, and one process with
\* ArrivalTime 0 and BurstDuration 5 gets WaitTime 0, TurnaroundTime 5,
\* CompletionTime 5.
C10_FCFSKeepsInputOrder ==
    /\ pc \in {"fcfs", "sjf"} => processes = loaded
    /\ Len(out) >= 1 =>
        /\ Len(out[1].rows) = Len(loaded)
        /\ Len(out[1].gantt) = Len(loaded)
        /\ \A i \in 1..Len(loaded) :
            /\ out[1].rows[i] # NoRow
            /\ RowID(out[1].rows[i]) = loaded[i].ProcessID
            /\ RowPriority(out[1].rows[i]) = loaded[i].Priority
            /\ RowBurst(out[1].rows[i]) = loaded[i].BurstDuration
            /\ RowArrival(out[1].rows[i]) = loaded[i].ArrivalTime
            /\ out[1].gantt[i].PID = loaded[i].ProcessID
        /\ (Len(loaded) = 1 /\ loaded[1].ArrivalTime = 0 /\ loaded[1].BurstDuration = 5) =>
            /\ RowWait(out[1].rows[1]) = 0
            /\ RowTurnaround(out[1].rows[1]) = 5
            /\ RowExit(out[1].rows[1]) = 5

\* FCFS has written its output for one process arriving at 0 with burst 5.
C10_SingleProcessWritten ==
    /\ Len(out) >= 1
    /\ Len(loaded) = 1
    /\ loaded[1].ArrivalTime = 0
    /\ loaded[1].BurstDuration = 5
    /\ out[1].rows = <<Row(loaded[1], 0, 5, 5)>>

\* The batch is in ascending order of ArrivalTime.
SortedByArrival(procs) ==
    \A i, j \in 1..Len(procs) : i < j => procs[i].ArrivalTime <= procs[j].ArrivalTime

\* t holds the processes of s, each as often, with every field as it was.
PermutationOf(t, s) ==
    /\ Len(t) = Len(s)
    /\ \A k \in 1..Len(s) : Count(t, s[k]) = Count(s, s[k])

\* C11: a policy changes the shared batch by reordering it at most: no step
\* of FCFS or of Round-robin changes it; a step of SJF or of Priority leaves a
\* permutation of it, no field of a process changed, and once either has
\* sorted, and when it returns, the batch is in ascending ArrivalTime.
C11_BatchOnlyReordered ==
    [][/\ pc \in {"fcfs", "rr"} => processes' = processes
       /\ pc \in {"sjf", "sjf_loop", "prio", "prio_loop"} =>
            /\ PermutationOf(processes', processes)
            /\ PermutationOf(processes', loaded)
            /\ SortedByArrival(processes')]_vars

\* SJF has returned, and the batch is no longer in the order of the input.
C11_Reordered ==
    /\ pc = "prio"
    /\ processes # loaded
    /\ Len(out) = 2

\* The text writes an integer in base 10: digits, after a sign or not.
C12_IsInteger(t) ==
    \/ t \in {<<"0">>, <<"1">>, <<"2">>, <<"3">>, <<"4">>, <<"5">>, <<"6">>, <<"7">>,
              <<"8">>, <<"9">>}
    \/ /\ Len(t) >= 2
       /\ t[1] \in {"+", "-"} \cup {DigitChars[d] : d \in 1..10}
       /\ \A k \in 2..Len(t) : t[k] \in {DigitChars[d] : d \in 1..10}

C12_Malformed ==
    \E i \in 1..Len(records) : \E k \in 1..Len(records[i]) : ~C12_IsInteger(records[i][k])

C13_RoundRobinTitleOnly ==
    [][pc = "rr" =>
        /\ Len(out') = Len(out) + 1
        /\ SubSeq(out', 1, Len(out)) = out
        /\ out'[Len(out')].title = "Round-robin"
        /\ out'[Len(out')].parts = <<"title">>
        /\ out'[Len(out')].gantt = <<>>
        /\ out'[Len(out')].rows = <<>>
        /\ processes' = processes]_vars

\* Round-robin has run, after the three other policies.
C13_RoundRobinRan ==
    /\ pc = "done"
    /\ Len(out) = 4
    /\ out[4].title = "Round-robin"

\* The slices are intervals that are not empty, one after the other.
C14_WellFormed(g) ==
    /\ \A a \in 1..Len(g) : g[a].Start < g[a].Stop
    /\ \A a \in 1..Len(g) - 1 : g[a + 1].Start >= g[a].Stop

\* The slices are the spans of the units logged: every unit is in a slice of
\* its process, and at every time of a slice its process ran a unit.
C14_SpansOfUnits(g) ==
    /\ \A k \in 1..Len(ranLog) : \E a \in 1..Len(g) :
        g[a].PID = ranLog[k] /\ g[a].Start <= ranAt[k] /\ ranAt[k] < g[a].Stop
    /\ \A a \in 1..Len(g) : \A t \in g[a].Start..g[a].Stop - 1 :
        \E k \in 1..Len(ranLog) : ranAt[k] = t /\ ranLog[k] = g[a].PID

\* C14: the timeline written by FCFS, SJF and Priority is a sequence of
\* intervals with Start < Stop, each starting no sooner than the one before
\* it stops, and each the span in which its process ran: as long as its burst
\* for FCFS, and the units logged by the simulation for SJF and Priority.
C14_TimelineIsSpans ==
    /\ \A k \in 1..Len(out) : k <= 3 => C14_WellFormed(out[k].gantt)
    /\ Len(out) >= 1 => \A a \in 1..Len(out[1].gantt) :
        out[1].gantt[a].Stop - out[1].gantt[a].Start
            = Input(out[1].gantt[a].PID).BurstDuration
    /\ pc = "prio" => C14_SpansOfUnits(out[2].gantt)
    /\ pc = "rr" => C14_SpansOfUnits(out[3].gantt)

\* C15: in SJFPrioritySchedule, when the heap is empty and a process has yet
\* to arrive, the clock is set to the arrival of the next process and the loop
\* goes on (its next step runs from that time); the loop ends, and the output
\* is written, only when the heap is empty and every process was inserted.
C15_IdleJumpContinues ==
    [][pc = "prio_loop" =>
        /\ (Len(PrioInserted[1]) = 0 /\ PrioInserted[2] < Len(processes)) =>
            /\ pc' = "prio_loop"
            /\ currentTime' = processes[PrioInserted[2] + 1].ArrivalTime
            /\ ranLog' = ranLog
        /\ pc' # "prio_loop" =>
            /\ pc' = "rr"
            /\ Len(PrioInserted[1]) = 0
            /\ PrioInserted[2] = Len(processes)]_vars

\* The ProcessIDs of the processes that have arrived by the clock and have
\* not completed.
C16_ArrivedUnfinished ==
    {processes[i].ProcessID : i \in {j \in 1..Len(processes) :
        /\ processes[j].ArrivalTime <= currentTime
        /\ Count(DonePids, processes[j].ProcessID) = 0}}

\* C16: at every unit run by SJFPrioritySchedule, the heap at the pop holds
\* exactly the processes that have arrived and not completed, and the process
\* that runs the unit has the least Priority value among them.
C16_MinPriorityRuns ==
    [][(pc = "prio_loop" /\ Len(ranLog') = Len(ranLog) + 1) =>
        LET runner == ranLog'[Len(ranLog')]
        IN /\ {PrioInserted[1][k].ProcessID : k \in 1..Len(PrioInserted[1])}
                = C16_ArrivedUnfinished
           /\ Len(PrioInserted[1]) = Cardinality(C16_ArrivedUnfinished)
           /\ runner \in C16_ArrivedUnfinished
           /\ ranAt'[Len(ranAt')] = currentTime
           /\ \A id \in C16_ArrivedUnfinished :
                Input(runner).Priority <= Input(id).Priority]_vars

\* A process that has not completed is preempted, on the tick of its arrival,
\* by a process of a strictly lower Priority value.
C16_PreemptedOnArrival ==
    /\ pc = "prio_loop"
    /\ Len(ranLog) >= 2
    /\ LET n == Len(ranLog)
       IN /\ ranLog[n] # ranLog[n - 1]
          /\ Count(DonePids, ranLog[n - 1]) = 0
          /\ Input(ranLog[n]).ArrivalTime = ranAt[n]
          /\ Input(ranLog[n]).Priority < Input(ranLog[n - 1]).Priority

\* The indexes of the processes that can run at the clock.
C17_Eligible ==
    {i \in 1..Len(processes) :
        processes[i].ArrivalTime <= currentTime /\ remainingTime[i] > 0}

\* C17: at every unit run by SJFSchedule, the process that runs can run (it
\* has arrived and has remaining time), no process that can run has less
\* remaining time, and none with the same remaining time has a lower index in
\* the sorted batch.
C17_ShortestRemainingLowestIndex ==
    [][(pc = "sjf_loop" /\ Len(ranLog') = Len(ranLog) + 1) =>
        LET ci == currentIndex'
        IN /\ ci \in C17_Eligible
           /\ ranLog'[Len(ranLog')] = processes[ci].ProcessID
           /\ remainingTime' = [remainingTime EXCEPT ![ci] = @ - 1]
           /\ \A j \in C17_Eligible :
                /\ remainingTime[ci] <= remainingTime[j]
                /\ remainingTime[j] = remainingTime[ci] => ci <= j]_vars

\* A unit was just run by a process that had, at that tick, the same remaining
\* time as an arrived process of a higher index.
C17_TieAtTick ==
    /\ pc = "sjf_loop"
    /\ Len(ranLog) >= 1
    /\ ranAt[Len(ranAt)] = currentTime - 1
    /\ processes[currentIndex].ProcessID = ranLog[Len(ranLog)]
    /\ \E j \in 1..Len(processes) :
        /\ j > currentIndex
        /\ processes[j].ArrivalTime <= currentTime - 1
        /\ remainingTime[j] = remainingTime[currentIndex] + 1

\* The indexes of the processes that have not completed.
C18_Uncompleted == {i \in 1..Len(processes) : remainingTime[i] > 0}

\* C18: while a process of SJFSchedule has yet to complete, the loop goes on
\* and the clock never goes back; a step that
\* runs no unit is taken only when no process can run, and it sets the clock
\* to the least ArrivalTime of the processes not completed, which is that of
\* processes[numOfCompletedProcesses] and is later than the clock; when a
\* process can run, the step runs a unit.
C18_IdleJumpToNextArrival ==
    [][(pc = "sjf_loop" /\ numOfCompletedProcesses < Len(processes)) =>
        /\ pc' = "sjf_loop"
        /\ currentTime' >= currentTime
        /\ C17_Eligible = {} =>
            /\ ranLog' = ranLog
            /\ remainingTime' = remainingTime
            /\ numOfCompletedProcesses + 1 \in C18_Uncompleted
            /\ currentTime' = processes[numOfCompletedProcesses + 1].ArrivalTime
            /\ \A i \in C18_Uncompleted : currentTime' <= processes[i].ArrivalTime
            /\ currentTime' > currentTime
        /\ C17_Eligible # {} =>
            /\ Len(ranLog') = Len(ranLog) + 1
            /\ currentTime' = currentTime + 1]_vars

\* The clock was set forward over an idle gap after a process had completed,
\* and the process then arrived is about to run.
C18_Jumped ==
    /\ pc = "sjf_loop"
    /\ Len(ranLog) >= 1
    /\ currentTime > ranAt[Len(ranAt)] + 1
    /\ numOfCompletedProcesses >= 1
    /\ processes[numOfCompletedProcesses + 1].ArrivalTime = currentTime

\* The sum of the BurstDuration of the processes before index i of the input.
C19_ServiceBefore(i) == SumSeq([k \in 1..i - 1 |-> loaded[k].BurstDuration])

\* C19: in the rows of FCFS, which are in input order, the WaitTime of a
\* process with ArrivalTime > 0 is the sum of the bursts of the processes
\* before it less its ArrivalTime, and the WaitTime of a process with
\* ArrivalTime = 0 is the WaitTime of the row before it (0 for the first row).
C19_WaitRecomputedOnlyAfterZero ==
    Len(out) >= 1 =>
        \A i \in 1..Len(out[1].rows) :
            /\ RowID(out[1].rows[i]) = loaded[i].ProcessID
            /\ RowWait(out[1].rows[i]) =
                IF loaded[i].ArrivalTime > 0
                THEN C19_ServiceBefore(i) - loaded[i].ArrivalTime
                ELSE IF i = 1 THEN 0 ELSE RowWait(out[1].rows[i - 1])

\* FCFS wrote, for a process arriving at 0 after another, a WaitTime that is
\* not the time the processes before it ran.
C19_CarriedOver ==
    /\ Len(out) >= 1
    /\ \E i \in 2..Len(out[1].rows) :
        /\ loaded[i].ArrivalTime = 0
        /\ RowWait(out[1].rows[i]) # C19_ServiceBefore(i)
        /\ RowWait(out[1].rows[i]) = RowWait(out[1].rows[i - 1])

\* The clock at which the process of ProcessID id ran its last unit, plus one.
C20_DoneAt(id) == doneLog[CHOOSE k \in 1..Len(doneLog) : doneLog[k].pid = id].at

\* The ticks from t1 to t2 - 1 at which the process of ProcessID id ran no unit.
C20_TicksNotRun(id, t1, t2) ==
    {t \in t1..t2 - 1 :
        ~\E k \in 1..Len(ranLog) : ranAt[k] = t /\ ranLog[k] = id}

\* C20: in SJFSchedule the wait computed at a completion is never negative,
\* so the clamp changes nothing: when SJF has written its output, every row's
\* Exit is the clock just after the last unit of its process, and its
\* WaitTime is that clock less the burst and the arrival, which is the number
\* of ticks from its arrival to its completion at which it did not run.
C20_ClampNeverTaken ==
    /\ pc \in {"sjf_loop", "prio"} =>
        \A k \in 1..Len(doneLog) :
            /\ doneLog[k].at - Input(doneLog[k].pid).BurstDuration
                             - Input(doneLog[k].pid).ArrivalTime >= 0
            /\ \E u \in 1..Len(ranLog) :
                ranLog[u] = doneLog[k].pid /\ ranAt[u] = doneLog[k].at - 1
    /\ pc = "prio" =>
        \A i \in 1..Len(out[2].rows) :
            LET r == out[2].rows[i]
                p == Input(RowID(r))
                at == C20_DoneAt(RowID(r))
            IN /\ RowExit(r) = at
               /\ RowWait(r) = at - p.BurstDuration - p.ArrivalTime
               /\ RowWait(r) = Cardinality(C20_TicksNotRun(RowID(r), p.ArrivalTime, at))

\* SJF wrote a row for a process that ran at its arrival, was preempted, and
\* completed later, with a WaitTime that is not zero.
C20_WaitedWhilePreempted ==
    /\ pc = "prio"
    /\ \E i \in 1..Len(out[2].rows) :
        LET r == out[2].rows[i]
        IN /\ RowWait(r) > 0
           /\ \E u \in 1..Len(ranLog) :
                ranLog[u] = RowID(r) /\ ranAt[u] = Input(RowID(r)).ArrivalTime

====
